---- MODULE Spec2Model ----
(***************************************************************************)
(* A model of the bencodex crate (src/src/lib.rs): the Lexer, the          *)
(* recursive-descent Parser built on it, and BNode::marshal.               *)
(*                                                                         *)
(* Every Rust function is an operator of the same name that takes the      *)
(* Lexer value it works on and returns a result record holding the Lexer   *)
(* value it leaves behind; a `while`/`loop` is a RECURSIVE operator whose  *)
(* parameters are the loop's local variables.  Bytes are the integers      *)
(* 0..255, byte strings are sequences of bytes.                            *)
(***************************************************************************)
EXTENDS Integers, Sequences, FiniteSets, TLC

VARIABLES
    overflow_checks,  \* build profile: TRUE = debug (overflow panics), FALSE = release (wraps)
    input,            \* the bytes of the byte source handed to the crate
    tree,             \* the BNode built by application code (None when the run starts from bytes)
    pc,               \* where the calling program is
    terminator,       \* Some(symbol) once read_i64_before(0, symbol) was called on a fresh Lexer
    res,              \* the result of the last call into the crate
    out,              \* the bytes the sink of marshal received
    lexer,            \* the Lexer a test drives call by call
    tokens,           \* the tokens that Lexer produced so far, in order
    op                \* the last call made on that Lexer: its name, argument, result, and the Lexer before it

lexvars == <<lexer, tokens, op>>
vars == <<overflow_checks, input, tree, pc, terminator, res, out, lexer, tokens, op>>

----------------------------------------------------------------------------
(* Bounds of the model *)

\* Width in bits of the model's i64/usize.  The code's is 64; TLC's integers
\* are 32 bits wide, so literals are read into a narrower two's-complement
\* integer with the same shape (|MIN| = MAX + 1, every single digit fits).
IntBits == 5
\* Longest byte source drawn byte by byte from Alphabet.
MaxLen == 4
\* Longest byte source drawn chunk by chunk from Chunks.
MaxChunks == 4
\* Largest number of BNode values in a tree built by application code.
MaxNodes == 3
\* Largest number of entries in a dictionary drawn entry by entry from Entries.
MaxEntries == 3
\* Largest number of bytes a bounded sink has room for.
MaxRoom == 3
\* Longest byte source a test drives a Lexer over call by call.
MaxLexLen == 3

----------------------------------------------------------------------------
(* Bytes, Option, i64 *)

\* The byte literal b'c'.
B(c) ==
    CASE c = "i" -> 105 [] c = "l" -> 108 [] c = "d" -> 100 [] c = "e" -> 101
      [] c = "-" -> 45  [] c = ":" -> 58  [] c = "0" -> 48  [] c = "1" -> 49
      [] c = "9" -> 57  [] c = "a" -> 97  [] c = "b" -> 98
      [] c = "2" -> 50

None == <<>>
Some(x) == <<x>>

I64_MAX == 2 ^ (IntBits - 1) - 1
I64_MIN == - (2 ^ (IntBits - 1))

\* Two's-complement wrap-around of an arithmetic result (release profile).
Wrap(x) == ((x - I64_MIN) % (2 ^ IntBits)) + I64_MIN

Overflows(x) == x < I64_MIN \/ x > I64_MAX

----------------------------------------------------------------------------
(* Results: Ok(value), Err(Error {msg, position}), or a panic (an abort that *)
(* unwinds through every caller).  Each carries the Lexer as it was left.   *)

Ok(v, L) == [st |-> "Ok", v |-> v, lexer |-> L]
Err(msg, position, L) == [st |-> "Err", msg |-> msg, position |-> position, lexer |-> L]
Panic(msg, L) == [st |-> "Panic", msg |-> msg, lexer |-> L]

\* The ? operator (and the unwinding of a panic): a result r that is not Ok is
\* what the caller returns at once; on Ok(v) the caller goes on with K.
Try(r, K(_)) == IF r.st # "Ok" THEN r ELSE K(r)

----------------------------------------------------------------------------
(* Token *)

Tok(t) == [t |-> t, n |-> 0]
Length(n) == [t |-> "Length", n |-> n]
IntegerBegin == Tok("IntegerBegin")
IntegerEnd == Tok("IntegerEnd")
ListBegin == Tok("ListBegin")
ListEnd == Tok("ListEnd")
DictBegin == Tok("DictBegin")
DictEnd == Tok("DictEnd")
Colon == Tok("Colon")
EOF == Tok("EOF")

----------------------------------------------------------------------------
(* Lexer *)

\* Beside the fields of the struct, two counts of what the Lexer did to its
\* byte source: polled_at_end, the calls of stream.next() that returned None,
\* and overwritten, the bytes put into cached_byte over one not yet delivered.
Lexer_new(stream) ==
    [stream |-> stream, position |-> -1, cached_byte |-> None, cached_token |-> None,
     token_stack |-> <<>>, current_token |-> None,
     polled_at_end |-> 0, overwritten |-> 0]

\* next_byte with position advanced only when the byte comes from the stream.
next_byte_counts_pulls(L) ==
    IF L.cached_byte # None
    THEN [b |-> L.cached_byte, lexer |-> [L EXCEPT !.cached_byte = None]]
    ELSE LET L1 == [L EXCEPT !.position = @ + 1] IN
         IF L1.stream = <<>>
         THEN [b |-> None, lexer |-> [L1 EXCEPT !.polled_at_end = @ + 1]]
         ELSE [b |-> Some(Head(L1.stream)), lexer |-> [L1 EXCEPT !.stream = Tail(@)]]

\* Option<u8> in b, the Lexer in lexer.
next_byte(L) ==
    LET L1 == [L EXCEPT !.position = @ + 1] IN
    IF L1.cached_byte # None
    THEN [b |-> L1.cached_byte, lexer |-> [L1 EXCEPT !.cached_byte = None]]
    ELSE IF L1.stream = <<>>
         THEN [b |-> None, lexer |-> [L1 EXCEPT !.polled_at_end = @ + 1]]
         ELSE [b |-> Some(Head(L1.stream)), lexer |-> [L1 EXCEPT !.stream = Tail(@)]]

\* x == b'0' && sign == -1 && read == 2
negative_zero(x, sign, read) == x = B("0") /\ sign = -1 /\ read = 2

\* leading_zero without its unsigned case.
leading_zero_signed_only(num, sign, read) == num = 0 /\ sign = -1 /\ read # 2

\* num == 0 && ((sign == 1 && read != 1) || (sign == -1 && read != 2))
leading_zero(num, sign, read) ==
    num = 0 /\ ((sign = 1 /\ read # 1) \/ (sign = -1 /\ read # 2))

\* The terminator met by read_i64_before dropped in place of being kept.
push_back_dropped(L, symbol) == [L EXCEPT !.position = @ - 1]

\* read_i64_before keeps its terminator for the next read and steps position back.
push_back(L, symbol) ==
    [L EXCEPT !.cached_byte = Some(symbol), !.position = @ - 1,
              !.overwritten = IF L.cached_byte = None THEN @ ELSE @ + 1]

\* The while loop of read_i64_before; num, sign, read are its locals.
RECURSIVE read_i64_loop(_, _, _, _, _)
read_i64_loop(L, num, sign, read0, symbol) ==
    LET nb == next_byte(L)
        L1 == nb.lexer
    IN
    IF nb.b = None
    THEN Err("invalid integer", L1.position, L1)
    ELSE
    LET x == nb.b[1]
        read == read0 + 1
    IN
    IF x \in B("0")..B("9")
    THEN IF negative_zero(x, sign, read)
         THEN Err("Negative zero is not permitted", L1.position, L1)
         ELSE IF leading_zero(num, sign, read)
         THEN Err("Leading zero is not permitted", L1.position, L1)
         ELSE LET mul == num * 10
                  add == Wrap(mul) + (x - B("0"))
              IN IF overflow_checks /\ Overflows(mul)
                 THEN Panic("attempt to multiply with overflow", L1)
                 ELSE IF overflow_checks /\ Overflows(add)
                 THEN Panic("attempt to add with overflow", L1)
                 ELSE read_i64_loop(L1, Wrap(add), sign, read, symbol)
    ELSE IF x = B("-")
    THEN IF sign = -1 /\ read # 1
         THEN Err("- can only appear in the head of the integer", L1.position, L1)
         ELSE read_i64_loop(L1, num, -1, read, symbol)
    ELSE IF x = symbol
    THEN LET L2 == push_back(L1, symbol) IN
         IF overflow_checks /\ Overflows(sign * num)
         THEN Panic("attempt to multiply with overflow", L2)
         ELSE Ok(<<Wrap(sign * num), read - 1>>, L2)
    ELSE Err("invalid integer", L1.position, L1)

read_i64_before(L, init, symbol) == read_i64_loop(L, init, 1, 0, symbol)

\* The cast (len as usize) of an i64.
as_usize(len) == IF len < 0 THEN len + 2 ^ IntBits ELSE len

\* The for loop of read_bytes; ret is the Vec being filled, todo the iterations left.
RECURSIVE read_bytes_loop(_, _, _)
read_bytes_loop(L, todo, ret) ==
    IF todo = 0
    THEN Ok(ret, L)
    ELSE LET nb == next_byte(L) IN
         IF nb.b = None
         THEN Err("bytes length is not the expected one", nb.lexer.position, nb.lexer)
         ELSE read_bytes_loop(nb.lexer, todo - 1, Append(ret, nb.b[1]))

\* Vec::with_capacity(len) panics once len exceeds isize::MAX.
read_bytes(L, len) ==
    IF len > I64_MAX
    THEN Panic("capacity overflow", L)
    ELSE read_bytes_loop(L, len, <<>>)

\* A pop that leaves the Vec as it is.
pop_keeps_top(stack) == stack

\* What Vec::pop leaves of a Vec that is not empty.
pop(stack) == SubSeq(stack, 1, Len(stack) - 1)

\* A match on current_token that every token passes.
is_length_or_any(current_token) == TRUE

\* current_token matches Some(Token::Length(_)).
is_length(current_token) == current_token # None /\ current_token[1].t = "Length"

next_token(L) ==
    IF L.cached_token # None
    THEN Ok(L.cached_token[1], [L EXCEPT !.cached_token = None])
    ELSE
    LET nb == next_byte(L)
        L1 == nb.lexer
    IN
    IF nb.b = None
    THEN Ok(EOF, L1)
    ELSE
    LET unknown == nb.b[1] IN
    IF unknown = B("i")
    THEN Ok(IntegerBegin, [L1 EXCEPT !.current_token = Some(IntegerBegin),
                                     !.token_stack = Append(@, IntegerBegin)])
    ELSE IF unknown = B("l")
    THEN Ok(ListBegin, [L1 EXCEPT !.current_token = Some(ListBegin),
                                  !.token_stack = Append(@, ListBegin)])
    ELSE IF unknown = B("d")
    THEN Ok(DictBegin, [L1 EXCEPT !.current_token = Some(DictBegin),
                                  !.token_stack = Append(@, DictBegin)])
    ELSE IF unknown = B("e")
    THEN IF L1.token_stack = <<>>
         THEN Err("e should be the end of integer, list and dictionary.", L1.position, L1)
         ELSE LET top == L1.token_stack[Len(L1.token_stack)]
                  L2 == [L1 EXCEPT !.token_stack = pop(@)]
                  L3 == [L2 EXCEPT !.current_token = None]
              IN IF top = IntegerBegin THEN Ok(IntegerEnd, L3)
                 ELSE IF top = ListBegin THEN Ok(ListEnd, L3)
                 ELSE IF top = DictBegin THEN Ok(DictEnd, L3)
                 ELSE Err("e should be the end of integer, list and dictionary.",
                          L2.position, L2)
    ELSE IF unknown \in B("0")..B("9")
    THEN Try(read_i64_before(L1, unknown - B("0"), B(":")), LAMBDA r :
             Ok(Length(r.v[1]), [r.lexer EXCEPT !.current_token = Some(Length(r.v[1]))]))
    ELSE IF unknown = B(":")
    THEN IF is_length(L1.current_token)
         THEN Ok(Colon, [L1 EXCEPT !.current_token = Some(Colon)])
         ELSE Err(": should be after the length of bytes.", L1.position, L1)
    ELSE Err("unknown token", L1.position, L1)

\* look_ahead without its cache: the token is read and not kept.
look_ahead_uncached(L) ==
    Try(next_token(L), LAMBDA r : Ok(r.v, r.lexer))

look_ahead(L) ==
    IF L.cached_token # None
    THEN Ok(L.cached_token[1], L)
    ELSE Try(next_token(L), LAMBDA r :
             Ok(r.v, [r.lexer EXCEPT !.cached_token = Some(r.v)]))

----------------------------------------------------------------------------
(* BNode, BList = Vec<BNode>, BDict = BTreeMap<String, BNode> *)

Integer(i) == [tag |-> "Integer", i |-> i]
Bytes(b) == [tag |-> "Bytes", b |-> b]
List(l) == [tag |-> "List", l |-> l]
Dict(m) == [tag |-> "Dict", m |-> m]

\* BytesLess with the order of the bytes turned around.
RECURSIVE BytesLess_descending(_, _)
BytesLess_descending(a, b) ==
    IF a = <<>> THEN FALSE
    ELSE IF b = <<>> THEN TRUE
    ELSE IF Head(a) # Head(b) THEN Head(a) > Head(b)
    ELSE BytesLess_descending(Tail(a), Tail(b))

\* Ord of String and of [u8]: byte-wise lexicographic, a proper prefix first.
RECURSIVE BytesLess(_, _)
BytesLess(a, b) ==
    IF b = <<>> THEN FALSE
    ELSE IF a = <<>> THEN TRUE
    ELSE IF Head(a) # Head(b) THEN Head(a) < Head(b)
    ELSE BytesLess(Tail(a), Tail(b))

\* A BTreeMap is the sequence of its <<key, value>> entries in ascending key
\* order, which is the order its iterator yields them in.
BDict_new == <<>>

\* An insert that keeps the value of a key already present.
RECURSIVE BDict_insert_keep(_, _, _)
BDict_insert_keep(m, key, value) ==
    IF m = <<>> THEN <<  <<key, value>>  >>
    ELSE IF Head(m)[1] = key THEN m
    ELSE IF BytesLess(key, Head(m)[1]) THEN << <<key, value>> >> \o m
    ELSE <<Head(m)>> \o BDict_insert_keep(Tail(m), key, value)

\* BTreeMap::insert: the value of a key already present is replaced.
RECURSIVE BDict_insert(_, _, _)
BDict_insert(m, key, value) ==
    IF m = <<>> THEN <<  <<key, value>>  >>
    ELSE IF Head(m)[1] = key THEN << <<key, value>> >> \o Tail(m)
    ELSE IF BytesLess(key, Head(m)[1]) THEN << <<key, value>> >> \o m
    ELSE <<Head(m)>> \o BDict_insert(Tail(m), key, value)

\* Number of continuation bytes (0x80..=0xBF) at the front of s, at most n.
RECURSIVE Continuations(_, _)
Continuations(s, n) ==
    IF n = 0 \/ s = <<>> \/ ~(Head(s) \in 128..191) THEN 0
    ELSE 1 + Continuations(Tail(s), n - 1)

\* String::from_utf8 succeeds: s is well-formed UTF-8 (RFC 3629 byte ranges).
RECURSIVE Utf8Valid(_)
Utf8Valid(s) ==
    IF s = <<>> THEN TRUE
    ELSE
    LET b0 == Head(s)
        t == Tail(s)
        width == IF b0 < 128 THEN 1
                 ELSE IF b0 \in 194..223 THEN 2
                 ELSE IF b0 \in 224..239 THEN 3
                 ELSE IF b0 \in 240..244 THEN 4
                 ELSE 0
        second == IF b0 = 224 THEN 160..191
                  ELSE IF b0 = 237 THEN 128..159
                  ELSE IF b0 = 240 THEN 144..191
                  ELSE IF b0 = 244 THEN 128..143
                  ELSE 128..191
    IN
    IF width = 0 THEN FALSE
    ELSE IF width = 1 THEN Utf8Valid(t)
    ELSE /\ Len(t) >= width - 1
         /\ t[1] \in second
         /\ Continuations(Tail(t), width - 2) = width - 2
         /\ Utf8Valid(SubSeq(t, width, Len(t)))

----------------------------------------------------------------------------
(* Parser *)

RECURSIVE parse_node(_), parse_list_loop(_, _), parse_dict_loop(_, _)

parse_integer(L) ==
    Try(next_token(L), LAMBDA r1 :
    IF r1.v # IntegerBegin THEN Panic("assertion failed: IntegerBegin", r1.lexer)
    ELSE
    Try(read_i64_before(r1.lexer, 0, B("e")), LAMBDA r2 :
    LET value == r2.v[1]
        read == r2.v[2]
    IN
    IF read < 1 THEN Err("Integer cannot be empty", r2.lexer.position, r2.lexer)
    ELSE
    Try(next_token(r2.lexer), LAMBDA r3 :
    IF r3.v # IntegerEnd THEN Panic("assertion failed: IntegerEnd", r3.lexer)
    ELSE Ok(value, r3.lexer))))

parse_bytes(L) ==
    Try(next_token(L), LAMBDA r1 :
    IF r1.v.t = "Length"
    THEN LET len == r1.v.n IN
         Try(next_token(r1.lexer), LAMBDA r2 :
         IF r2.v # Colon THEN Panic("assertion failed: Colon", r2.lexer)
         ELSE read_bytes(r2.lexer, as_usize(len)))
    ELSE Err("invalid input", r1.lexer.position, r1.lexer))

parse_list(L) ==
    Try(next_token(L), LAMBDA r1 :
    IF r1.v # ListBegin THEN Panic("assertion failed: ListBegin", r1.lexer)
    ELSE parse_list_loop(r1.lexer, <<>>))

parse_dict(L) ==
    Try(next_token(L), LAMBDA r1 :
    IF r1.v # DictBegin THEN Panic("assertion failed: DictBegin", r1.lexer)
    ELSE parse_dict_loop(r1.lexer, BDict_new))

parse_node(L) ==
    Try(look_ahead(L), LAMBDA la :
    IF la.v = IntegerBegin
    THEN Try(parse_integer(la.lexer), LAMBDA r : Ok(Integer(r.v), r.lexer))
    ELSE IF la.v.t = "Length"
    THEN Try(parse_bytes(la.lexer), LAMBDA r : Ok(Bytes(r.v), r.lexer))
    ELSE IF la.v = ListBegin
    THEN Try(parse_list(la.lexer), LAMBDA r : Ok(List(r.v), r.lexer))
    ELSE IF la.v = DictBegin
    THEN Try(parse_dict(la.lexer), LAMBDA r : Ok(Dict(r.v), r.lexer))
    ELSE Err("invalid input", la.lexer.position, la.lexer))

\* The loop of parse_list; list is its local Vec.
parse_list_loop(L, list) ==
    Try(look_ahead(L), LAMBDA la :
    IF la.v = IntegerBegin
    THEN Try(parse_integer(la.lexer), LAMBDA r :
             parse_list_loop(r.lexer, Append(list, Integer(r.v))))
    ELSE IF la.v.t = "Length"
    THEN Try(parse_bytes(la.lexer), LAMBDA r :
             parse_list_loop(r.lexer, Append(list, Bytes(r.v))))
    ELSE IF la.v = ListBegin
    THEN Try(parse_list(la.lexer), LAMBDA r :
             parse_list_loop(r.lexer, Append(list, List(r.v))))
    ELSE IF la.v = DictBegin
    THEN Try(parse_dict(la.lexer), LAMBDA r :
             parse_list_loop(r.lexer, Append(list, Dict(r.v))))
    ELSE IF la.v = ListEnd
    THEN Try(next_token(la.lexer), LAMBDA r : Ok(list, r.lexer))
    ELSE Err("invalid list", la.lexer.position, la.lexer))

\* String::from_utf8(raw_key).unwrap()
from_utf8_unwrap(raw_key, L) ==
    IF Utf8Valid(raw_key)
    THEN Ok(raw_key, L)
    ELSE Panic("called Result::unwrap() on an Err value: FromUtf8Error", L)

\* The loop of parse_dict with its last arm closing the dictionary in place of
\* throwing.
parse_dict_loop_lenient(L, dict) ==
    Try(look_ahead(L), LAMBDA la :
    IF la.v.t = "Length"
    THEN Try(parse_bytes(la.lexer), LAMBDA raw_key :
         Try(from_utf8_unwrap(raw_key.v, raw_key.lexer), LAMBDA key :
         Try(parse_node(key.lexer), LAMBDA value :
             parse_dict_loop(value.lexer, BDict_insert(dict, key.v, value.v)))))
    ELSE IF la.v = DictEnd
    THEN Try(next_token(la.lexer), LAMBDA r : Ok(dict, r.lexer))
    ELSE Ok(dict, la.lexer))

\* The loop of parse_dict; dict is its local BDict.
parse_dict_loop(L, dict) ==
    Try(look_ahead(L), LAMBDA la :
    IF la.v.t = "Length"
    THEN Try(parse_bytes(la.lexer), LAMBDA raw_key :
         Try(from_utf8_unwrap(raw_key.v, raw_key.lexer), LAMBDA key :
         Try(parse_node(key.lexer), LAMBDA value :
             parse_dict_loop(value.lexer, BDict_insert(dict, key.v, value.v)))))
    ELSE IF la.v = DictEnd
    THEN Try(next_token(la.lexer), LAMBDA r : Ok(dict, r.lexer))
    ELSE Err("invalid dictionary", la.lexer.position, la.lexer))

\* Parser::parse asking for one more token once it has seen EOF.
Parser_parse_past_end(L) ==
    Try(parse_node(L), LAMBDA node :
    Try(next_token(node.lexer), LAMBDA r :
    IF r.v = EOF THEN Try(next_token(r.lexer), LAMBDA r2 : Ok(node.v, r2.lexer))
    ELSE Err("Expect EOF", r.lexer.position, r.lexer)))

\* Parser::parse on a Parser whose Lexer is L.
Parser_parse(L) ==
    Try(parse_node(L), LAMBDA node :
    Try(next_token(node.lexer), LAMBDA r :
    IF r.v = EOF THEN Ok(node.v, r.lexer)
    ELSE Err("Expect EOF", r.lexer.position, r.lexer)))

\* pub fn parse(stream): Parser::new(stream).parse().
parse(stream) == Parser_parse(Lexer_new(stream))

----------------------------------------------------------------------------
(* BNode::marshal into a Vec<u8>: the bytes written, in order *)

\* u64/usize::to_string: the decimal digits of n >= 0, no leading zero.
RECURSIVE usize_to_string(_)
usize_to_string(n) ==
    IF n < 10 THEN <<B("0") + n>>
    ELSE Append(usize_to_string(n \div 10), B("0") + (n % 10))

\* i64::to_string: a '-' and the digits of the magnitude for a negative value.
i64_to_string(i) == IF i < 0 THEN <<B("-")>> \o usize_to_string(-i) ELSE usize_to_string(i)

RECURSIVE marshal(_), marshal_list(_), marshal_dict(_)

\* for bn in l { bn.marshal(buf) }
marshal_list(l) ==
    IF l = <<>> THEN <<>> ELSE marshal(Head(l)) \o marshal_list(Tail(l))

\* for (k, v) in m { len(k) ":" k, v.marshal(buf) }
marshal_dict(m) ==
    IF m = <<>> THEN <<>>
    ELSE LET k == Head(m)[1]
             v == Head(m)[2]
         IN usize_to_string(Len(k)) \o <<B(":")>> \o k \o marshal(v) \o marshal_dict(Tail(m))

marshal(node) ==
    IF node.tag = "Integer" THEN <<B("i")>> \o i64_to_string(node.i) \o <<B("e")>>
    ELSE IF node.tag = "Bytes" THEN usize_to_string(Len(node.b)) \o <<B(":")>> \o node.b
    ELSE IF node.tag = "List" THEN <<B("l")>> \o marshal_list(node.l) \o <<B("e")>>
    ELSE <<B("d")>> \o marshal_dict(node.m) \o <<B("e")>>

\* The buffers marshal hands to buf.write, one per call, in order.
RECURSIVE marshal_writes(_), marshal_list_writes(_), marshal_dict_writes(_)

marshal_list_writes(l) ==
    IF l = <<>> THEN <<>> ELSE marshal_writes(Head(l)) \o marshal_list_writes(Tail(l))

marshal_dict_writes(m) ==
    IF m = <<>> THEN <<>>
    ELSE LET k == Head(m)[1]
             v == Head(m)[2]
         IN <<usize_to_string(Len(k)), <<B(":")>>, k>> \o marshal_writes(v)
            \o marshal_dict_writes(Tail(m))

marshal_writes(node) ==
    IF node.tag = "Integer" THEN << <<B("i")>>, i64_to_string(node.i), <<B("e")>> >>
    ELSE IF node.tag = "Bytes" THEN <<usize_to_string(Len(node.b)), <<B(":")>>, node.b>>
    ELSE IF node.tag = "List" THEN << <<B("l")>> >> \o marshal_list_writes(node.l) \o << <<B("e")>> >>
    ELSE << <<B("d")>> >> \o marshal_dict_writes(node.m) \o << <<B("e")>> >>

\* The sinks, W: Write.  A Vec<u8> takes every byte; a slice (&mut [u8]) takes
\* what it has room for and reports how much; a device takes a buffer whole
\* or reports an I/O error.
VecSink == [kind |-> "Vec", room |-> 0, data |-> <<>>]
SliceSink(room) == [kind |-> "slice", room |-> room, data |-> <<>>]
DeviceSink(room) == [kind |-> "device", room |-> room, data |-> <<>>]

\* Write::write(sink, bytes): Ok(n) with the first n bytes taken, or Err.
write(sink, bytes) ==
    IF sink.kind = "Vec"
    THEN [st |-> "Ok", n |-> Len(bytes), sink |-> [sink EXCEPT !.data = @ \o bytes]]
    ELSE IF sink.kind = "slice"
    THEN LET n == IF Len(bytes) < sink.room THEN Len(bytes) ELSE sink.room IN
         [st |-> "Ok", n |-> n,
          sink |-> [sink EXCEPT !.data = @ \o SubSeq(bytes, 1, n), !.room = @ - n]]
    ELSE IF Len(bytes) <= sink.room
    THEN [st |-> "Ok", n |-> Len(bytes),
          sink |-> [sink EXCEPT !.data = @ \o bytes, !.room = @ - Len(bytes)]]
    ELSE [st |-> "Err", n |-> 0, sink |-> sink]

\* w += buf.write(..)? for each buffer of writes in turn, from the count w on.
RECURSIVE marshal_loop(_, _, _)
marshal_loop(writes, sink, w) ==
    IF writes = <<>> THEN [st |-> "Ok", v |-> w, sink |-> sink]
    ELSE LET r == write(sink, Head(writes)) IN
         IF r.st = "Err" THEN [st |-> "Err", v |-> w, sink |-> r.sink]
         ELSE marshal_loop(Tail(writes), r.sink, w + r.n)

\* node.marshal(&mut sink): std::io::Result<usize>, and the sink as it is left.
marshal_into(node, sink) == marshal_loop(marshal_writes(node), sink, 0)

----------------------------------------------------------------------------
(* The byte sources and the trees the calling program works with *)

RECURSIVE SeqsUpTo(_, _)
\* The sequences over S of length at most n.
SeqsUpTo(S, n) ==
    IF n = 0 THEN {<<>>}
    ELSE LET shorter == SeqsUpTo(S, n - 1) IN
         shorter \cup {Append(q, x) : q \in {r \in shorter : Len(r) = n - 1}, x \in S}

RECURSIVE Flatten(_)
Flatten(ss) == IF ss = <<>> THEN <<>> ELSE Head(ss) \o Flatten(Tail(ss))

\* The bytes the grammar gives a meaning to, and the digits 0, 1 and 9.
Alphabet == {B("i"), B("l"), B("d"), B("e"), B("-"), B(":"), B("0"), B("1"), B("9")}

RawInputs == SeqsUpTo(Alphabet, MaxLen)

\* Whole lexical units, for byte sources that nest deeper than MaxLen bytes can:
\* the brackets, an integer, and byte strings (the last one is not UTF-8).
Chunks ==
    { <<B("l")>>, <<B("d")>>, <<B("e")>>,
      <<B("i"), B("0"), B("e")>>,
      <<B("0"), B(":")>>,
      <<B("1"), B(":"), B("a")>>,
      <<B("1"), B(":"), 255>> }

ChunkInputs == {Flatten(cs) : cs \in SeqsUpTo(Chunks, MaxChunks)}

\* "i" + decimal(v) + "e" for every v of the integer type.
IntegerLiteral(v) == <<B("i")>> \o i64_to_string(v) \o <<B("e")>>
IntegerInputs == {IntegerLiteral(v) : v \in I64_MIN..I64_MAX}

\* Dictionaries written entry by entry, in any order and with repeated keys:
\* the keys "a", "ab", "b", the values 0, "" and [].
EntryKeys == {<<B("1"), B(":"), B("a")>>, <<B("2"), B(":"), B("a"), B("b")>>,
              <<B("1"), B(":"), B("b")>>}
EntryValues == {<<B("i"), B("0"), B("e")>>, <<B("0"), B(":")>>, <<B("l"), B("e")>>}
Entries == {k \o v : k \in EntryKeys, v \in EntryValues}
DictInputs == {<<B("d")>> \o Flatten(es) \o <<B("e")>> : es \in SeqsUpTo(Entries, MaxEntries)}

\* A whole value followed by the length prefix "10:" and nothing more.
TrailingInputs == {v \o <<B("1"), B("0"), B(":")>> : v \in EntryValues}

Inputs == RawInputs \cup ChunkInputs \cup IntegerInputs \cup DictInputs \cup TrailingInputs

\* Keys a program gives its BDict entries: Strings, so valid UTF-8 ("", "a", "é").
Keys == {<<>>, <<B("a")>>, <<195, 169>>}

\* Leaves a program nests in its lists and dictionaries.
Leaves == {Integer(I64_MIN), Integer(0), Bytes(<<>>), Bytes(<<B("e")>>)}

\* dict.insert(ks[1], f[1]); ...; dict.insert(ks[n], f[n]) on dict.
RECURSIVE InsertAll(_, _, _)
InsertAll(dict, ks, f) ==
    IF ks = <<>> THEN dict
    ELSE InsertAll(BDict_insert(dict, Head(ks), Head(f)), Tail(ks), Tail(f))

\* The sequences of n distinct keys: the orders a program may insert them in.
KeySeqs(n) == {ks \in SeqsUpTo(Keys, n) : Len(ks) = n /\ Cardinality({ks[j] : j \in 1..n}) = n}

RECURSIVE TreesOfSize(_), ForestsOfSize(_)
\* The sequences of trees that hold m BNode values in all.
ForestsOfSize(m) ==
    IF m = 0 THEN {<<>>}
    ELSE UNION {{<<t>> \o f : t \in TreesOfSize(k), f \in ForestsOfSize(m - k)} : k \in 1..m}

\* The trees of exactly n BNode values: BNode::from(Vec<BNode>), BNode::from(BTreeMap).
TreesOfSize(n) ==
    LET forests == ForestsOfSize(n - 1) IN
    (IF n = 1 THEN Leaves ELSE {})
    \cup {List(f) : f \in forests}
    \cup UNION {{Dict(InsertAll(BDict_new, ks, f)) : ks \in KeySeqs(Len(f))} : f \in forests}

\* Every integer and some byte strings on their own, and the nested trees.
Nodes ==
    {Integer(v) : v \in I64_MIN..I64_MAX}
    \cup {Bytes(b) : b \in SeqsUpTo({B("e"), B(":"), B("1"), 255}, 2)}
    \cup UNION {TreesOfSize(n) : n \in 1..MaxNodes}

NoResult == [st |-> "None"]

Sinks == {VecSink} \cup {SliceSink(room) : room \in 0..MaxRoom}
         \cup {DeviceSink(room) : room \in 0..MaxRoom}

NoOp == [name |-> "none"]

\* The byte sources a test drives a Lexer over: the bytes the Lexer tells
\* apart, with l for the two containers and 1 for the digits.
LexAlphabet == {B("i"), B("l"), B("e"), B("-"), B(":"), B("1")}
\* The bytes that open and close the two containers.
NestAlphabet == {B("d"), B("l"), B("e")}
\* A byte string with its payload, and a : after it.
PayloadInputs == {<<B("1"), B(":"), B("e"), B(":")>>}
LexInputs ==
    SeqsUpTo(LexAlphabet, MaxLexLen) \cup SeqsUpTo(NestAlphabet, MaxLexLen) \cup PayloadInputs

\* The lengths read_bytes is called with: none, one byte, and the length the
\* cast (-1 as usize) gives.
ReadLens == {0, 1, as_usize(-1)}

----------------------------------------------------------------------------
(* The calling program *)

\* A test or an application holds either a byte source or a tree it built.
Init ==
    /\ overflow_checks \in BOOLEAN
    /\ \/ input \in Inputs /\ tree = None /\ pc = "start"
       \/ input = <<>> /\ tree \in {Some(n) : n \in Nodes} /\ pc = "built"
    /\ terminator = None
    /\ res = NoResult
    /\ out = <<>>
    /\ lexer = Lexer_new(<<>>)
    /\ tokens = <<>>
    /\ op = NoOp

\* parse(&mut input.bytes())
Parse ==
    /\ pc = "start"
    /\ res' = parse(input)
    /\ pc' = "parsed"
    /\ UNCHANGED <<overflow_checks, input, tree, terminator, out>>
    /\ UNCHANGED lexvars

\* Lexer::new(&mut input.bytes()).read_i64_before(0, symbol), as the unit tests call it.
ReadI64Before(symbol) ==
    /\ pc = "start"
    /\ tree = None
    /\ res' = read_i64_before(Lexer_new(input), 0, symbol)
    /\ terminator' = Some(symbol)
    /\ pc' = "lexed"
    /\ UNCHANGED <<overflow_checks, input, tree, out>>
    /\ UNCHANGED lexvars

\* node.marshal(&mut buf) on the node a successful parse returned.
MarshalParsed ==
    /\ pc = "parsed"
    /\ res.st = "Ok"
    /\ out' = marshal(res.v)
    /\ pc' = "marshalled"
    /\ UNCHANGED <<overflow_checks, input, tree, terminator, res>>
    /\ UNCHANGED lexvars

\* bnode.marshal(&mut buf) on the tree the program built.
MarshalTree ==
    /\ pc = "built"
    /\ out' = marshal(tree[1])
    /\ pc' = "serialized"
    /\ UNCHANGED <<overflow_checks, input, tree, terminator, res>>
    /\ UNCHANGED lexvars

\* bnode.marshal(&mut sink) on the tree the program built, into any sink.
MarshalInto(sink) ==
    /\ pc = "built"
    /\ res' = marshal_into(tree[1], sink)
    /\ out' = res'.sink.data
    /\ pc' = "written"
    /\ UNCHANGED <<overflow_checks, input, tree, terminator>>
    /\ UNCHANGED lexvars

\* let mut lexer = Lexer::new(&mut input.bytes()), as the unit tests do.
NewLexer ==
    /\ pc = "start"
    /\ tree = None
    /\ input \in LexInputs
    /\ lexer' = Lexer_new(input)
    /\ tokens' = <<>>
    /\ op' = NoOp
    /\ pc' = "lexing"
    /\ UNCHANGED <<overflow_checks, input, tree, terminator, res, out>>

\* A further call is made on the Lexer: every call so far returned Ok (a test
\* unwraps each result), and the source was not read past its end yet.
CanCall ==
    /\ pc = "lexing"
    /\ (op.name # "none" => op.r.st = "Ok")
    /\ lexer.position < Len(input)

\* The call name(arg) on the Lexer gave r; token tells whether r.v is a token
\* the Lexer produced by this call (not one it held).
Called(name, arg, r, token) ==
    /\ op' = [name |-> name, arg |-> arg, before |-> lexer, r |-> r]
    /\ lexer' = r.lexer
    /\ tokens' = IF token /\ r.st = "Ok" THEN Append(tokens, r.v) ELSE tokens
    /\ UNCHANGED <<overflow_checks, input, tree, pc, terminator, res, out>>

\* lexer.next_token()
LexNextToken ==
    /\ CanCall
    /\ Called("next_token", 0, next_token(lexer), lexer.cached_token = None)

\* lexer.look_ahead()
LexLookAhead ==
    /\ CanCall
    /\ Called("look_ahead", 0, look_ahead(lexer), lexer.cached_token = None)

\* lexer.read_bytes(len)
LexReadBytes(len) ==
    /\ CanCall
    /\ Called("read_bytes", len, read_bytes(lexer, len), FALSE)

\* lexer.read_i64_before(0, symbol)
LexReadI64Before(symbol) ==
    /\ CanCall
    /\ Called("read_i64_before", symbol, read_i64_before(lexer, 0, symbol), FALSE)

\* The bytes marshal wrote become the byte source of a parse.
Reload ==
    /\ pc = "serialized"
    /\ input' = out
    /\ pc' = "start"
    /\ UNCHANGED <<overflow_checks, tree, terminator, res, out>>
    /\ UNCHANGED lexvars

Next ==
    \/ Parse
    \/ \E symbol \in {B("e"), B(":")} : ReadI64Before(symbol)
    \/ MarshalParsed
    \/ MarshalTree
    \/ \E sink \in Sinks : MarshalInto(sink)
    \/ Reload
    \/ NewLexer
    \/ LexNextToken
    \/ LexLookAhead
    \/ \E len \in ReadLens : LexReadBytes(len)
    \/ \E symbol \in {B("e"), B(":")} : LexReadI64Before(symbol)

Spec == Init /\ [][Next]_vars
----------------------------------------------------------------------------
(* Vocabulary of the properties: shapes of byte strings, read off the bytes *)
(* alone (nothing below calls the Lexer or the Parser to describe an input) *)

IsDigit(x) == x \in B("0")..B("9")

IsPrefix(p, s) == Len(p) <= Len(s) /\ SubSeq(s, 1, Len(p)) = p

\* Index of the first byte at or after i that is no digit; Len(s) + 1 if there is none.
RECURSIVE DigitsEnd(_, _)
DigitsEnd(s, i) == IF i > Len(s) \/ ~IsDigit(s[i]) THEN i ELSE DigitsEnd(s, i + 1)

\* The number the decimal digits s[i..j-1] denote.
RECURSIVE NumeralValue(_, _, _)
NumeralValue(s, i, j) ==
    IF j <= i THEN 0 ELSE NumeralValue(s, i, j - 1) * 10 + (s[j - 1] - B("0"))

\* s[i..j-1] is at least one digit, with no leading zero.
PlainNumeral(s, i, j) == j > i /\ (s[i] # B("0") \/ j = i + 1)

\* CanonicalEnd(s, i): the index just past the canonical Bencode value that
\* starts at s[i], or 0 when none starts there.  Integers carry no leading
\* zero and no sign but a '-' before a non-zero number, lengths carry no
\* leading zero, the keys of a dictionary ascend strictly.
RECURSIVE CanonicalEnd(_, _), CanonicalItemsEnd(_, _), CanonicalEntriesEnd(_, _, _)
CanonicalEnd(s, i) ==
    IF i > Len(s) THEN 0
    ELSE IF s[i] = B("i")
    THEN LET neg == i + 1 <= Len(s) /\ s[i + 1] = B("-")
             a == IF neg THEN i + 2 ELSE i + 1
             z == DigitsEnd(s, a)
         IN IF /\ z <= Len(s)
               /\ s[z] = B("e")
               /\ PlainNumeral(s, a, z)
               /\ ~(neg /\ s[a] = B("0"))
            THEN z + 1 ELSE 0
    ELSE IF IsDigit(s[i])
    THEN LET z == DigitsEnd(s, i)
             n == NumeralValue(s, i, z)
         IN IF z <= Len(s) /\ s[z] = B(":") /\ PlainNumeral(s, i, z) /\ z + n <= Len(s)
            THEN z + n + 1 ELSE 0
    ELSE IF s[i] = B("l") THEN CanonicalItemsEnd(s, i + 1)
    ELSE IF s[i] = B("d") THEN CanonicalEntriesEnd(s, i + 1, None)
    ELSE 0

CanonicalItemsEnd(s, i) ==
    IF i > Len(s) THEN 0
    ELSE IF s[i] = B("e") THEN i + 1
    ELSE LET j == CanonicalEnd(s, i) IN
         IF j = 0 THEN 0 ELSE CanonicalItemsEnd(s, j)

\* last: Some(the key of the entry before), None at the first entry.
CanonicalEntriesEnd(s, i, last) ==
    IF i > Len(s) THEN 0
    ELSE IF s[i] = B("e") THEN i + 1
    ELSE IF ~IsDigit(s[i]) THEN 0
    ELSE LET k == CanonicalEnd(s, i)
             key == SubSeq(s, DigitsEnd(s, i) + 1, k - 1)
             v == CanonicalEnd(s, k)
         IN IF k = 0 THEN 0
            ELSE IF last # None /\ ~BytesLess(last[1], key) THEN 0
            ELSE IF v = 0 THEN 0
            ELSE CanonicalEntriesEnd(s, v, Some(key))

Canonical(s) == CanonicalEnd(s, 1) = Len(s) + 1

\* The byte source came from outside (not from marshal) and parse has returned.
ParsedBytes == pc = "parsed" /\ tree = None

----------------------------------------------------------------------------
(* C1 *)

\* C1: for a canonical input s on which parse succeeds, marshal(parse(s)) is s,
\* byte for byte.
C1_RoundTrip ==
    (pc = "marshalled" /\ tree = None /\ Canonical(input)) => out = input

\* The part of C1 that the code keeps: in a build with overflow checks no
\* value is ever returned for a literal the integer type cannot hold, and the
\* round trip reproduces every canonical input parse accepts.
C1_RoundTripChecked == overflow_checks => C1_RoundTrip

----------------------------------------------------------------------------
(* C2 *)

\* C2: for any BNode n a program builds, parse(marshal(n)) succeeds and the
\* marshal of the parsed tree equals marshal(n).
C2_Stabilizes ==
    tree # None =>
        /\ pc = "parsed" => res.st = "Ok"
        /\ pc = "marshalled" => out = input

\* The part of C2 that the code keeps: every tree but those holding the
\* least integer stabilizes in every build, and all do where overflow wraps.
RECURSIVE HoldsMin(_)
HoldsMin(node) ==
    IF node.tag = "Integer" THEN node.i = I64_MIN
    ELSE IF node.tag = "Bytes" THEN FALSE
    ELSE IF node.tag = "List" THEN \E j \in 1..Len(node.l) : HoldsMin(node.l[j])
    ELSE \E j \in 1..Len(node.m) : HoldsMin(node.m[j][2])

C2_StabilizesButMin ==
    (tree # None /\ (~overflow_checks \/ ~HoldsMin(tree[1]))) =>
        /\ pc = "parsed" => res.st = "Ok"
        /\ pc = "marshalled" => out = input

----------------------------------------------------------------------------
(* C3 *)

\* Some proper, non-empty prefix of s is an input parse accepts.
HasAcceptedProperPrefix(s) ==
    \E k \in 1..(Len(s) - 1) : parse(SubSeq(s, 1, k)).st = "Ok"

\* C3: when parse accepts s, parse returns Err for s followed by one or more
\* extra bytes.
C3_TrailingDataIsErr ==
    (ParsedBytes /\ HasAcceptedProperPrefix(input)) => res.st = "Err"

\* The part of C3 that the code keeps: an input with an accepted proper prefix
\* is never accepted, and is answered with Err where overflow wraps.
C3_TrailingDataNotAccepted ==
    (ParsedBytes /\ HasAcceptedProperPrefix(input)) =>
        (res.st # "Ok" /\ (~overflow_checks => res.st = "Err"))

----------------------------------------------------------------------------
(* C4 *)

\* C4: for every v of the integer type, parse of "i" + decimal(v) + "e" yields
\* Integer(v).
C4_EveryIntegerParses ==
    \A v \in I64_MIN..I64_MAX :
        (ParsedBytes /\ input = IntegerLiteral(v)) => (res.st = "Ok" /\ res.v = Integer(v))

\* The part of C4 that the code keeps: every value but the least one is read
\* back in every build, the least one only where overflow wraps.
C4_EveryIntegerButMinParses ==
    \A v \in I64_MIN..I64_MAX :
        (ParsedBytes /\ input = IntegerLiteral(v) /\ (~overflow_checks \/ v # I64_MIN))
        => (res.st = "Ok" /\ res.v = Integer(v))

----------------------------------------------------------------------------
(* C5 *)

\* The least index from i on at which s holds x, Len(s) + 1 if there is none.
RECURSIVE FirstIndex(_, _, _)
FirstIndex(s, x, i) == IF i > Len(s) \/ s[i] = x THEN i ELSE FirstIndex(s, x, i + 1)

\* s[from..to] holds a '-' somewhere after its first byte.
MisplacedSign(s, from, to) == \E k \in (from + 1)..to : s[k] = B("-")

\* C5: a literal that holds a '-' anywhere after its first byte is never given
\* a value, neither by read_i64_before (the literal is what precedes the first
\* terminator) nor by parse (the literal is what lies between 'i' and the
\* first 'e').
C5_MisplacedSignFails ==
    /\ pc = "lexed" =>
           (MisplacedSign(input, 1, FirstIndex(input, terminator[1], 1) - 1)
            => res.st # "Ok")
    /\ (ParsedBytes /\ IsPrefix(<<B("i")>>, input)) =>
           (MisplacedSign(input, 2, FirstIndex(input, B("e"), 2) - 1)
            => res.st # "Ok")

\* The part of C5 that the code keeps: a second '-' is never given a value.
C5_SecondSignFails ==
    pc = "lexed" =>
        (Cardinality({k \in 1..(FirstIndex(input, terminator[1], 1) - 1) :
                         input[k] = B("-")}) > 1
         => res.st # "Ok")

----------------------------------------------------------------------------
(* C6 *)

\* s[from..to] holds no decimal digit.
NoDigit(s, from, to) == \A k \in from..to : ~IsDigit(s[k])

\* C6: an integer whose body, the bytes between 'i' and the first 'e', holds
\* no decimal digit is answered with Err.
C6_IntegerNeedsDigit ==
    (ParsedBytes /\ IsPrefix(<<B("i")>>, input)
     /\ NoDigit(input, 2, FirstIndex(input, B("e"), 2) - 1))
    => res.st = "Err"

\* The part of C6 that the code keeps: the empty body is answered with Err.
C6_EmptyBodyIsErr ==
    (ParsedBytes /\ IsPrefix(<<B("i"), B("e")>>, input)) => res.st = "Err"

----------------------------------------------------------------------------
(* C7 *)

\* The first index of the digits of a literal: past its optional leading '-'.
DigitsBegin(s) == IF IsPrefix(<<B("-")>>, s) THEN 2 ELSE 1

\* s begins with an optional '-', a '0', and one more digit at least.
ZeroLed(s) ==
    LET i == DigitsBegin(s) IN
    Len(s) > i /\ s[i] = B("0") /\ IsDigit(s[i + 1])

\* C7: read_i64_before(0, 'e') answers Err to "-0" and to every literal of
\* more than one digit whose first digit is '0', signed or not, and answers
\* the value 0 to the literal "0".
C7_ZeroRules ==
    (pc = "lexed" /\ terminator = Some(B("e"))) =>
        /\ IsPrefix(<<B("-"), B("0")>>, input) => res.st = "Err"
        /\ ZeroLed(input) => res.st = "Err"
        /\ IsPrefix(<<B("0"), B("e")>>, input) => (res.st = "Ok" /\ res.v[1] = 0)

C7_LeadingZeroSeen ==
    /\ pc = "lexed" /\ terminator = Some(B("e"))
    /\ input = <<B("0"), B("1"), B("e")>>
    /\ res.st = "Err" /\ res.msg = "Leading zero is not permitted"

----------------------------------------------------------------------------
(* C8 *)

\* C8: a byte string whose length prefix has more than one digit, the first
\* of them '0', is answered with Err.
C8_LengthLeadingZero ==
    (ParsedBytes /\ IsPrefix(<<B("0")>>, input)
     /\ DigitsEnd(input, 1) > 2
     /\ DigitsEnd(input, 1) <= Len(input) /\ input[DigitsEnd(input, 1)] = B(":"))
    => res.st = "Err"

\* The part of C8 that the code keeps: a length prefix of three digits or more
\* that begins with two zeros is answered with Err.
C8_LengthTwoZeros ==
    (ParsedBytes /\ IsPrefix(<<B("0"), B("0")>>, input) /\ DigitsEnd(input, 1) > 3)
    => res.st = "Err"

----------------------------------------------------------------------------
(* C9 *)

\* C9: a dictionary whose first key is the one byte x >= 128, which no text
\* encoding as UTF-8 consists of, is answered with Err.
C9_InvalidKeyIsErr ==
    (ParsedBytes /\ Len(input) >= 4
     /\ IsPrefix(<<B("d"), B("1"), B(":")>>, input) /\ input[4] >= 128)
    => res.st = "Err"

----------------------------------------------------------------------------
(* C10 *)

\* Well-formed keys, values and contexts, written out as bytes.
DictKeys == {<<B("0"), B(":")>>, <<B("1"), B(":"), B("a")>>}
DictValues ==
    {<<B("i"), B("0"), B("e")>>, <<B("0"), B(":")>>, <<B("1"), B(":"), B("a")>>,
     <<B("l"), B("e")>>, <<B("d"), B("e")>>}
DictEntries == {k \o v : k \in DictKeys, v \in DictValues}
DictContexts == {<<>>, <<B("l")>>, <<B("d"), B("0"), B(":")>>}

\* The byte strings that end at a key position: an open dictionary, at top
\* level, in a list or as a value, followed by two entries at most.
AtKey ==
    {c \o <<B("d")>> \o Flatten(es) : c \in DictContexts, es \in SeqsUpTo(DictEntries, 2)}

\* The byte strings that end after a key, where its value is due.
AtValue == {p \o k : p \in AtKey, k \in DictKeys}

\* C10: at a key position, an integer, a list, a dictionary or the end of the
\* stream is answered with Err, and so is the end of the stream where the
\* value of a key is due.
C10_KeyPosition ==
    ParsedBytes =>
        /\ \A p \in AtKey :
               (IsPrefix(p, input)
                /\ (Len(input) = Len(p) \/ input[Len(p) + 1] \in {B("i"), B("l"), B("d")}))
               => res.st = "Err"
        /\ input \in AtValue => res.st = "Err"

C10_IntegerKeySeen ==
    /\ ParsedBytes
    /\ input = <<B("d"), B("1"), B(":"), B("a"), B("i"), B("0"), B("e"), B("i"), B("0"), B("e")>>
    /\ res.st = "Err" /\ res.msg = "invalid dictionary"

----------------------------------------------------------------------------
(* C11 *)

\* The entries of a dictionary of DictInputs, read off its bytes from index i
\* on: <<key, value>> pairs in the order they are written, the key as its raw
\* bytes, the value as the tree it denotes.
RECURSIVE WrittenEntries(_, _)
WrittenEntries(s, i) ==
    IF s[i] = B("e") THEN <<>>
    ELSE LET n == s[i] - B("0")
             key == SubSeq(s, i + 2, i + 1 + n)
             j == i + 2 + n
             value == IF s[j] = B("i") THEN Integer(s[j + 1] - B("0"))
                      ELSE IF s[j] = B("l") THEN List(<<>>)
                      ELSE Bytes(<<>>)
             next == IF s[j] = B("i") THEN j + 3 ELSE j + 2
         IN << <<key, value>> >> \o WrittenEntries(s, next)

\* The value written last for key among the entries es.
LastWritten(es, key) ==
    es[CHOOSE j \in DOMAIN es :
          es[j][1] = key /\ \A k \in DOMAIN es : es[k][1] = key => k <= j][2]

HasRepeatedKey(es) == \E j, k \in DOMAIN es : j < k /\ es[j][1] = es[k][1]

\* C11: a dictionary in which a key is written more than once is parsed
\* without error, and the dictionary returned holds, for every key written,
\* one entry, whose value is the one written last for that key.
C11_LastWins ==
    (ParsedBytes /\ input \in DictInputs /\ HasRepeatedKey(WrittenEntries(input, 2))) =>
        LET es == WrittenEntries(input, 2) IN
        /\ res.st = "Ok" /\ res.v.tag = "Dict"
        /\ \A j \in DOMAIN es :
               /\ Cardinality({i \in DOMAIN res.v.m : res.v.m[i][1] = es[j][1]}) = 1
               /\ \A i \in DOMAIN res.v.m :
                      res.v.m[i][1] = es[j][1] => res.v.m[i][2] = LastWritten(es, es[j][1])
        /\ \A i \in DOMAIN res.v.m : \E j \in DOMAIN es : es[j][1] = res.v.m[i][1]

C11_RepeatedKeySeen ==
    /\ ParsedBytes
    /\ input = <<B("d"), B("1"), B(":"), B("a"), B("i"), B("0"), B("e"),
                 B("1"), B(":"), B("a"), B("l"), B("e"), B("e")>>
    /\ res.st = "Ok" /\ res.v = Dict(<< <<  <<B("a")>>, List(<<>>)  >> >>)

----------------------------------------------------------------------------
(* C12 *)

\* The keys of EntryKeys in ascending byte-lexicographic order: "a" is a
\* prefix of "ab", and "ab" differs from "b" at its first byte, 97 < 98.
KeysAscending == << <<B("a")>>, <<B("a"), B("b")>>, <<B("b")>> >>

\* The bytes of one entry as marshal is to write it.
EntryBytes(key, value) ==
    <<B("0") + Len(key), B(":")>> \o key
    \o (IF value.tag = "Integer" THEN <<B("i"), B("0") + value.i, B("e")>>
        ELSE IF value.tag = "List" THEN <<B("l"), B("e")>>
        ELSE <<B("0"), B(":")>>)

\* The entries es, each key once with its last value, in the order of KeysAscending.
RECURSIVE InKeyOrder(_, _)
InKeyOrder(es, k) ==
    IF k > Len(KeysAscending) THEN <<>>
    ELSE (IF \E j \in DOMAIN es : es[j][1] = KeysAscending[k]
          THEN EntryBytes(KeysAscending[k], LastWritten(es, KeysAscending[k]))
          ELSE <<>>)
         \o InKeyOrder(es, k + 1)

\* C12: whatever order the entries of a dictionary were written in, marshal
\* of the parsed dictionary writes them in ascending byte-lexicographic order
\* of their keys; two inputs that differ in that order only give the same bytes.
C12_AscendingKeys ==
    (pc = "marshalled" /\ tree = None /\ input \in DictInputs) =>
        out = <<B("d")>> \o InKeyOrder(WrittenEntries(input, 2), 1) \o <<B("e")>>

C12_ReorderedSeen ==
    /\ pc = "marshalled" /\ tree = None
    /\ input = <<B("d"), B("1"), B(":"), B("b"), B("l"), B("e"),
                 B("2"), B(":"), B("a"), B("b"), B("0"), B(":"),
                 B("1"), B(":"), B("a"), B("i"), B("0"), B("e"), B("e")>>
    /\ out = <<B("d"), B("1"), B(":"), B("a"), B("i"), B("0"), B("e"),
               B("2"), B(":"), B("a"), B("b"), B("0"), B(":"),
               B("1"), B(":"), B("b"), B("l"), B("e"), B("e")>>

----------------------------------------------------------------------------
(* C13 *)

\* C13: when marshal returns Ok(n), whatever the sink, the sink has received
\* the whole encoding of the node, in order, and n is its length; and marshal
\* returns an error only where a write on the sink did.
C13_CompleteOnOk ==
    pc = "written" =>
        /\ res.st = "Ok" => (out = marshal(tree[1]) /\ res.v = Len(marshal(tree[1])))
        /\ res.st = "Err" => res.sink.kind = "device"

\* The part of C13 that the code keeps: n is the number of bytes the sink
\* received, these are the first n bytes of the encoding, an error is one the
\* sink reported, and a sink that takes every buffer whole receives it all.
C13_CountsWhatWasTaken ==
    pc = "written" =>
        /\ res.st = "Ok" => (res.v = Len(out) /\ IsPrefix(out, marshal(tree[1])))
        /\ res.st = "Err" => res.sink.kind = "device"
        /\ (res.st = "Ok" /\ res.sink.kind # "slice") => out = marshal(tree[1])

----------------------------------------------------------------------------
(* C14 *)

\* The number of bytes the Lexer L has taken from the byte source.
Taken(L) == Len(input) - Len(L.stream)

\* C14: the position of every Err of parse lies in 0..len(input) and is the
\* offset of the byte the failure was detected at: the last byte taken from
\* the source, or len(input) where the source was found at its end.
C14_PositionIsOffset ==
    (ParsedBytes /\ res.st = "Err") =>
        /\ 0 <= res.position /\ res.position <= Len(input)
        /\ \/ res.position = Taken(res.lexer) - 1
           \/ res.lexer.stream = <<>> /\ res.position = Len(input)

\* The part of C14 that the code keeps: the position lies in 0..len(input),
\* and is the offset of the last byte taken and not pushed back, or len(input)
\* where the source was found at its end.
C14_PositionIsLexerOffset ==
    (ParsedBytes /\ res.st = "Err") =>
        /\ 0 <= res.position /\ res.position <= Len(input)
        /\ \/ res.position = Taken(res.lexer) - 1 - (IF res.lexer.cached_byte = None THEN 0 ELSE 1)
           \/ res.lexer.stream = <<>> /\ res.position = Len(input)

\* The example of C14: in "i-1-e" the second '-' is at offset 3.
C14_SecondSignOffset ==
    (ParsedBytes /\ IsPrefix(<<B("i"), B("-"), B("1"), B("-")>>, input)) =>
        (res.st = "Err" /\ res.position = 3)

----------------------------------------------------------------------------
(* C15 *)

\* C15: once look_ahead has returned a token, a further look_ahead returns
\* the same token and leaves the whole Lexer as it is (so any number of them
\* do), a look_ahead made on a Lexer that holds a token changed nothing, and
\* the next_token that follows returns that token and leaves position, the
\* byte source, the pushed-back byte and the stack of begin markers as they are.
C15_LookAheadIdempotent ==
    (pc = "lexing" /\ op.name = "look_ahead" /\ op.r.st = "Ok") =>
        LET again == look_ahead(lexer)
            following == next_token(lexer)
        IN
        /\ again.st = "Ok" /\ again.v = op.r.v /\ again.lexer = lexer
        /\ op.before.cached_token # None =>
               (lexer = op.before /\ op.r.v = op.before.cached_token[1])
        /\ following.st = "Ok" /\ following.v = op.r.v
        /\ following.lexer.position = lexer.position
        /\ following.lexer.stream = lexer.stream
        /\ following.lexer.cached_byte = lexer.cached_byte
        /\ following.lexer.token_stack = lexer.token_stack

C15_SecondLookAheadSeen ==
    /\ pc = "lexing" /\ input = <<B("i"), B("1"), B("e")>>
    /\ op.name = "look_ahead" /\ op.before.cached_token = Some(IntegerBegin)
    /\ op.r.st = "Ok" /\ op.r.v = IntegerBegin
    /\ lexer.position = 0 /\ lexer.stream = <<B("1"), B("e")>>

----------------------------------------------------------------------------
(* C16 *)

Delivered(L) == Taken(L) - (IF L.cached_byte = None THEN 0 ELSE 1)

-----------------------------------------------------------------------------
(* C17 *)

Begins == {IntegerBegin, ListBegin, DictBegin}
Ends == {IntegerEnd, ListEnd, DictEnd}

\* The End token that closes the Begin token b.
EndOf(b) ==
    IF b = IntegerBegin THEN IntegerEnd ELSE IF b = ListBegin THEN ListEnd ELSE DictEnd

\* The byte the next call of next_byte on L delivers, None at the end.
NextByte(L) ==
    IF L.cached_byte # None THEN L.cached_byte
    ELSE IF L.stream = <<>> THEN None ELSE Some(Head(L.stream))

\* The Begin tokens of the token sequence ts that no later End has closed, in
\* the order they were opened.
RECURSIVE OpenBegins(_)
OpenBegins(ts) ==
    IF ts = <<>> THEN <<>>
    ELSE LET open == OpenBegins(SubSeq(ts, 1, Len(ts) - 1))
             t == ts[Len(ts)]
         IN IF t \in Begins THEN Append(open, t)
            ELSE IF t \in Ends /\ open # <<>> THEN SubSeq(open, 1, Len(open) - 1)
            ELSE open

\* The call recorded in op read a token from the bytes (it held none).
ReadsToken == op.name \in {"next_token", "look_ahead"} /\ op.before.cached_token = None

\* C17: token_stack holds only Begin tokens, and they are the Begin tokens
\* produced so far that no End has closed, in opening order; an e read as a
\* token with an empty stack is an error that leaves the stack empty, and
\* otherwise it takes the top marker off and gives the End token of that
\* marker's kind; an i, l or d read as a token puts its marker on top; no
\* other call changes the stack; after a successful parse the stack is empty.
C17_StackDiscipline ==
    /\ (pc = "lexing") =>
           /\ \A k \in DOMAIN lexer.token_stack : lexer.token_stack[k] \in Begins
           /\ lexer.token_stack = OpenBegins(tokens)
    /\ (pc = "lexing" /\ op.name # "none") =>
           LET stack == op.before.token_stack
               after == op.r.lexer.token_stack
               b == NextByte(op.before)
           IN IF ReadsToken /\ b = Some(B("e"))
              THEN IF stack = <<>>
                   THEN op.r.st = "Err" /\ after = <<>>
                   ELSE /\ op.r.st = "Ok"
                        /\ op.r.v = EndOf(stack[Len(stack)])
                        /\ after = SubSeq(stack, 1, Len(stack) - 1)
              ELSE IF ReadsToken /\ b \in {Some(B("i")), Some(B("l")), Some(B("d"))}
              THEN /\ op.r.st = "Ok" /\ op.r.v \in Begins
                   /\ after = Append(stack, op.r.v)
              ELSE after = stack
    /\ (pc = "parsed" /\ res.st = "Ok") => res.lexer.token_stack = <<>>

\* A list closed inside a dictionary: the e gave ListEnd and left DictBegin.
C17_InnermostClosedSeen ==
    /\ pc = "lexing" /\ input = <<B("d"), B("l"), B("e")>>
    /\ tokens = <<DictBegin, ListBegin, ListEnd>>
    /\ op.name = "next_token" /\ op.before.token_stack = <<DictBegin, ListBegin>>
    /\ lexer.token_stack = <<DictBegin>>

-----------------------------------------------------------------------------
(* C18 *)

\* The tokens the Lexer had produced before the call recorded in op.
TokensBefore ==
    IF ReadsToken /\ op.r.st = "Ok" THEN SubSeq(tokens, 1, Len(tokens) - 1) ELSE tokens

\* C18: in the sequence of tokens the Lexer has produced every Colon comes
\* directly after a Length; a : read as a token gives Colon when the token
\* produced last is a Length, and is an error in every other situation.
C18_ColonAfterLength ==
    /\ (pc = "lexing") =>
           \A k \in DOMAIN tokens :
               tokens[k] = Colon => k > 1 /\ tokens[k - 1].t = "Length"
    /\ (pc = "lexing" /\ op.name # "none" /\ ReadsToken
            /\ NextByte(op.before) = Some(B(":"))) =>
           IF TokensBefore # <<>> /\ TokensBefore[Len(TokensBefore)].t = "Length"
           THEN op.r.st = "Ok" /\ op.r.v = Colon
           ELSE op.r.st = "Err"

\* 1:e: with the payload e read by read_bytes(1): the second : is refused.
C18_ColonAfterPayloadSeen ==
    /\ pc = "lexing" /\ input = <<B("1"), B(":"), B("e"), B(":")>>
    /\ tokens = <<Length(1), Colon>>
    /\ op.name = "next_token" /\ op.r.st = "Err"
    /\ op.before.position = 2 /\ op.before.current_token = Some(Colon)

-----------------------------------------------------------------------------
(* C19 *)

\* The bytes the Lexer L has yet to deliver: the byte pushed back, then the stream.
Remaining(L) == L.cached_byte \o L.stream

\* read_bytes touched nothing but the bytes and position.
ReadBytesFrame ==
    /\ op.r.lexer.token_stack = op.before.token_stack
    /\ op.r.lexer.current_token = op.before.current_token
    /\ op.r.lexer.cached_token = op.before.cached_token

\* The call read_bytes(op.arg) recorded in op did what C19 says of it.
ReadBytesAsStated ==
    LET n == op.arg
        rest == Remaining(op.before)
    IN IF n <= Len(rest)
       THEN /\ op.r.st = "Ok"
            /\ op.r.v = SubSeq(rest, 1, n)
            /\ Remaining(op.r.lexer) = SubSeq(rest, n + 1, Len(rest))
            /\ op.r.lexer.position = op.before.position + n
            /\ ReadBytesFrame
       ELSE op.r.st = "Err" /\ ReadBytesFrame

\* C19: read_bytes(n) returns the next n bytes as they are and moves position
\* on by n, with token_stack, current_token and the cached token as they
\* were; with fewer than n bytes left it returns Err.
C19_ReadBytes ==
    (pc = "lexing" /\ op.name = "read_bytes") => ReadBytesAsStated

\* The same for the lengths a Vec can be given as its capacity.
C19_ReadBytesWithinCapacity ==
    (pc = "lexing" /\ op.name = "read_bytes" /\ op.arg <= I64_MAX) => ReadBytesAsStated

-----------------------------------------------------------------------------
(* C20 *)

\* C20: every Length token the Lexer produces carries a length that is not
\* negative, whatever bytes follow the first digit, and so no parse asks
\* read_bytes for the length a negative number is cast to.
C20_LengthNotNegative ==
    /\ (pc = "lexing") =>
           \A k \in DOMAIN tokens : tokens[k].t = "Length" => tokens[k].n >= 0
    /\ (pc = "parsed") => ~(res.st = "Panic" /\ res.msg = "capacity overflow")

\* The same for a length prefix made of digits only, none lost to overflow.
C20_DigitsOnlyLengthNotNegative ==
    (/\ pc = "lexing" /\ ReadsToken /\ op.r.st = "Ok" /\ op.r.v.t = "Length"
     /\ LET rest == Remaining(op.before) IN
            \E k \in 1..Len(rest) :
                /\ rest[k] = B(":")
                /\ \A j \in 1..(k - 1) : IsDigit(rest[j])
                /\ NumeralValue(rest, 1, k) <= I64_MAX)
        => op.r.v.n >= 0

-----------------------------------------------------------------------------
(* C21 *)

\* The panics of the assert_eq! checks of parse_integer, parse_bytes,
\* parse_list and parse_dict.
AssertionPanics ==
    {"assertion failed: IntegerBegin", "assertion failed: IntegerEnd",
     "assertion failed: Colon", "assertion failed: ListBegin",
     "assertion failed: DictBegin"}

\* C21: no parse of any input ends in the panic of an assert_eq! check: the
\* token taken first by parse_integer, parse_list and parse_dict is the Begin
\* token looked ahead, the token after a read_i64_before(0, e) that succeeded
\* is IntegerEnd, and the token after a Length is Colon.
C21_AssertionsHold ==
    (pc = "parsed" /\ res.st = "Panic") => res.msg \notin AssertionPanics

\* A parse that went through all five checks.
C21_AllChecksPassedSeen ==
    /\ pc = "parsed"
    /\ input = <<B("d"), B("1"), B(":"), B("a"), B("i"), B("0"), B("e"),
                 B("1"), B(":"), B("b"), B("l"), B("e"), B("e")>>
    /\ res.st = "Ok"
    /\ res.v = Dict(<< <<(<<B("a")>>), Integer(0)>>, <<(<<B("b")>>), List(<<>>)>> >>)

-----------------------------------------------------------------------------
(* C22 *)

\* C22: when parse returns, what is left of the byte source is the input
\* less the bytes pulled, each pulled once and in order; no byte was pushed
\* back over one not yet delivered again; the source was polled at most once
\* at its end; and a failure left pulled no byte past the position it
\* reports, but for a terminator that is pushed back.
C22_ConsumedOnceForward ==
    (pc = "parsed") =>
        /\ Taken(res.lexer) \in 0..Len(input)
        /\ res.lexer.stream = SubSeq(input, Taken(res.lexer) + 1, Len(input))
        /\ res.lexer.overwritten = 0
        /\ res.lexer.polled_at_end <= 1
        /\ (res.lexer.polled_at_end = 1) => res.lexer.stream = <<>>
        /\ (res.st = "Err") =>
               Taken(res.lexer) = res.position + 1 - res.lexer.polled_at_end
                                     + Len(res.lexer.cached_byte)

\* A parse that pushed two terminators back, polled the source once at its
\* end, and pulled every byte.
C22_WholeSourcePulledSeen ==
    /\ pc = "parsed"
    /\ input = <<B("l"), B("1"), B(":"), B("a"), B("i"), B("0"), B("e"), B("e")>>
    /\ res.st = "Ok"
    /\ res.lexer.stream = <<>> /\ res.lexer.polled_at_end = 1
    /\ Taken(res.lexer) = Len(input)

\* A parse that failed in the middle of its input and left the rest unpulled.
C22_FailureStopsPullingSeen ==
    /\ pc = "parsed"
    /\ input = <<B("i"), B(":"), B("1"), B("e")>>
    /\ res.st = "Err" /\ res.position = 1
    /\ res.lexer.stream = <<B("1"), B("e")>> /\ res.lexer.polled_at_end = 0

====
